---- MODULE Spec2Model ----
(***************************************************************************)
(* BoilR: main.rs.  One run of main() imports the games of the Epic and    *)
(* Legendary platforms into every Steam user's shortcut collection and     *)
(* downloads the missing artwork of the shortcuts from SteamGridDB.        *)
(*                                                                         *)
(* Spec      : runs of main(), one action per step of main(), on a machine *)
(*             where each platform has one game, installed or not.         *)
(* SpecMerge : update_platform_shortcuts applied to drawn collections and  *)
(*             candidate lists.                                            *)
(***************************************************************************)
EXTENDS Integers, Sequences, FiniteSets, TLC

\* ---- bounds ----------------------------------------------------------
\* SpecMerge: the entries a platform can return are 1..MaxEntry
MaxEntry == 1
\* SpecMerge: longest candidate list a platform returns
MaxCand == 2
\* remote (SteamGridDB) game identifiers 1..MaxGame
MaxGame == 2
\* Steam users found by get_shortcuts_paths
NUsers == 2
\* runs of the program
MaxRuns == 2
\* longest shortcut collection drawn for SpecMerge
MaxColl == 2
\* calls of update_platform_shortcuts in SpecMerge
MaxCalls == 2

VARIABLES
  pc,                      \* position in main()
  run,                     \* number of the current run
  settings,                \* Settings::new()
  user,                    \* index of the user of the for loop (line 84)
  shortcut_file,           \* shortcuts.vdf of the current user
  new_user_shortcuts,      \* line 87
  platform,                \* platform of the last update_platform_shortcuts
  shortcuts_to_add_result, \* line 306, of the last update_platform_shortcuts
  grid_folder,             \* files in config/grid of the current user
  known_images,            \* line 105
  search_results,          \* line 118
  to_search,               \* rest of the iterator shortcuts_to_search_for
  image_type,              \* index in types (line 127)
  images_needed,           \* rest of the iterator images_needed (line 129)
  images,                  \* rest of the iterator over the response (line 150)
  cache,                   \* CachedSearch: the in-memory map
  persisted,               \* CachedSearch: the cache file
  io,                      \* the external call made by the last step
  all_ok,                  \* no call of the current user's processing failed
  calls,                   \* SpecMerge: the calls of update_platform_shortcuts so far
  writes                   \* writes of shortcuts.vdf of the current user

vars == <<pc, run, settings, user, shortcut_file, new_user_shortcuts, platform,
          shortcuts_to_add_result, grid_folder, known_images, search_results,
          to_search, image_type, images_needed, images, cache, persisted, io,
          all_ok, calls, writes>>

\* ---- values ------------------------------------------------------------
NoResult == [ok |-> FALSE, none |-> TRUE, list |-> <<>>]
Err == [ok |-> FALSE, none |-> FALSE, list |-> <<>>]
Ok(l) == [ok |-> TRUE, none |-> FALSE, list |-> l]
NotFound == [found |-> FALSE, id |-> 0]
Match(g) == [found |-> TRUE, id |-> g]
NoShortcutFile == [exists |-> FALSE, shortcuts |-> <<>>]
EmptyMap == [a \in {} |-> NotFound]
Insert(m, a, v) == [x \in DOMAIN m \cup {a} |-> IF x = a THEN v ELSE m[x]]
NoIo == [op |-> "none"]

Entries == 1 .. MaxEntry
GameIds == 1 .. MaxGame

RECURSIVE SeqsUpTo(_, _)
SeqsUpTo(S, n) ==
  IF n = 0 THEN {<<>>}
  ELSE LET shorter == SeqsUpTo(S, n - 1)
       IN shorter \cup {Append(s, x) : s \in {t \in shorter : Len(t) = n - 1}, x \in S}

Contains(s, x) == \E i \in 1 .. Len(s) : s[i] = x
Range(s) == {s[i] : i \in 1 .. Len(s)}

\* ---- platforms ---------------------------------------------------------
Platforms == {"EGS", "Legendary"}
enabled(p) == IF p = "EGS" THEN settings.epic_games ELSE settings.legendary

\* Into<ShortcutOwned> of a platform entry: the shortcut of that game, tagged
\* with the platform.  The app_id is computed from the executable and the name,
\* and the executable differs between the platforms.
into(p, e) ==
  [app_id |-> IF p = "EGS" THEN 2 * e - 1 ELSE 2 * e, app_name |-> e, tags |-> <<p>>]

\* a shortcut the user added in Steam
Manual == [app_id |-> 2 * MaxEntry + 1, app_name |-> 0, tags |-> <<>>]
\* an Epic shortcut the user gave a tag of their own
Favourite == [app_id |-> 1, app_name |-> 1, tags |-> <<"favourite", "EGS">>]
\* a shortcut the user added in Steam for a game Epic has as well
ManualSame == [app_id |-> 1, app_name |-> 1, tags |-> <<>>]

\* what get_shortcuts of a platform can return
Results == {Err} \cup {Ok(l) : l \in SeqsUpTo(Entries, MaxCand)}

\* Spec: the game of each platform, and what get_shortcuts returns there
Installed == {1}
RunResults == {Err, Ok(<<>>)} \cup {Ok(<<e>>) : e \in Installed}
AppIds == {into(p, e).app_id : p \in Platforms, e \in Installed}

update_platform_shortcuts_no_retain(p, is_enabled, result, current_shortcuts) ==
  IF is_enabled /\ result.ok
  THEN current_shortcuts \o [i \in 1 .. Len(result.list) |-> into(p, result.list[i])]
  ELSE current_shortcuts

update_platform_shortcuts_retain_tagged(p, is_enabled, result, current_shortcuts) ==
  IF is_enabled /\ result.ok
  THEN LET keep(f) == Contains(f.tags, p)
       IN SelectSeq(current_shortcuts, keep)
            \o [i \in 1 .. Len(result.list) |-> into(p, result.list[i])]
  ELSE current_shortcuts

update_platform_shortcuts_clear_on_err(p, is_enabled, result, current_shortcuts) ==
  IF is_enabled
  THEN LET keep(f) == ~Contains(f.tags, p)
       IN SelectSeq(current_shortcuts, keep)
            \o [i \in 1 .. Len(result.list) |-> into(p, result.list[i])]
  ELSE current_shortcuts

\* lines 299-321: the collection after the call, result being what
\* platform.get_shortcuts() returned
update_platform_shortcuts(p, is_enabled, result, current_shortcuts) ==
  IF is_enabled /\ result.ok
  THEN LET keep(f) == ~Contains(f.tags, p)
       IN SelectSeq(current_shortcuts, keep)
            \o [i \in 1 .. Len(result.list) |-> into(p, result.list[i])]
  ELSE current_shortcuts

\* ---- artwork -----------------------------------------------------------
\* line 127
types == <<"Logo", "Hero", "Grid">>

\* lines 185-193
file_name(t, app_id) ==
  CASE t = "Hero" -> <<app_id, "_hero.png">>
    [] t = "Grid" -> <<app_id, "p.png">>
    [] t = "Logo" -> <<app_id, "_logo.png">>

AllImages(app_id) == {file_name(types[i], app_id) : i \in 1 .. Len(types)}

needs_search_unnegated(s, known) ==
  LET wanted == {<<s.app_id, "_hero.png">>, <<s.app_id, "p.png">>, <<s.app_id, "_logo.png">>}
  IN \E image \in wanted : image \in known

\* lines 108-116: the shortcut misses one of its three images
needs_search(s, known) ==
  LET wanted == {<<s.app_id, "_hero.png">>, <<s.app_id, "p.png">>, <<s.app_id, "_logo.png">>}
  IN \E image \in wanted : image \notin known

shortcuts_to_search_for(shortcuts, known) ==
  LET test(s) == needs_search(s, known) IN SelectSeq(shortcuts, test)

ImagesNeeded_known_ignored(shortcuts, results, known, t) ==
  LET test(s) == s.app_id \in DOMAIN results
  IN SelectSeq(shortcuts, test)

\* lines 129-132
ImagesNeeded(shortcuts, results, known, t) ==
  LET test(s) == s.app_id \in DOMAIN results /\ file_name(t, s.app_id) \notin known
  IN SelectSeq(shortcuts, test)

\* lines 133-137
ImageIds(needed, results) == [i \in 1 .. Len(needed) |-> results[needed[i].app_id].id]

\* ---- the environment ---------------------------------------------------
SettingsSet ==
  [steamgrid_enabled : BOOLEAN, auth_key : BOOLEAN, epic_games : BOOLEAN,
   legendary : BOOLEAN]

\* shortcuts a shortcuts.vdf can hold before the run
Stored == {into(p, e) : p \in Platforms, e \in Installed}
ShortcutFiles ==
  {NoShortcutFile} \cup {[exists |-> TRUE, shortcuts |-> l] : l \in SeqsUpTo(Stored, 1)}

\* contents of config/grid before the run
GridFolders ==
  {{}} \cup {AllImages(a) : a \in AppIds} \cup {{file_name("Hero", a)} : a \in AppIds}

\* what the remote search of a name can answer
SearchAnswers == {NotFound} \cup {Match(g) : g \in GameIds}

\* what a successful get_images_for_ids(ids) can carry: entries in any order,
\* each an error or the image answering one of the requested identifiers
NoImage == [ok |-> FALSE, id |-> 0]
Image(g) == [ok |-> TRUE, id |-> g]
Responses(ids) == SeqsUpTo({NoImage} \cup {Image(g) : g \in Range(ids)}, Len(ids))

\* the response carries a usable image for every requested identifier
Covers(resp, ids) ==
  \A g \in Range(ids) : \E i \in 1 .. Len(resp) : resp[i].id = g /\ resp[i].ok

\* ---- CachedSearch ------------------------------------------------------
\* CachedSearch::new: the map of the cache file
CachedSearch_new == persisted

\* CachedSearch::search hits the map: no remote search
CachedSearch_hit(app_id) == app_id \in DOMAIN cache

\* CachedSearch::save: the map becomes the cache file
CachedSearch_save == cache

\* ---- main() ------------------------------------------------------------
UserLocals ==
  /\ search_results' = EmptyMap
  /\ to_search' = <<>>
  /\ image_type' = 0
  /\ images_needed' = <<>>
  /\ images' = <<>>
  /\ known_images' = {}

\* lines 68-82 without the test of lines 71-74
Start_unchecked ==
  /\ pc = "main"
  /\ \/ /\ ~settings.steamgrid_enabled /\ ~settings.auth_key
        /\ pc' = "panicked"
        /\ UNCHANGED cache
     \/ /\ settings.steamgrid_enabled \/ settings.auth_key
        /\ cache' = CachedSearch_new
        /\ pc' = "users"
     \/ /\ settings.steamgrid_enabled \/ settings.auth_key
        /\ pc' = "failed"
        /\ UNCHANGED cache
  /\ io' = NoIo
  /\ UNCHANGED <<run, settings, user, shortcut_file, new_user_shortcuts, platform,
                 shortcuts_to_add_result, grid_folder, known_images, search_results,
                 to_search, image_type, images_needed, images, persisted, all_ok, calls, writes>>

\* lines 68-82
Start ==
  /\ pc = "main"
  /\ \/ /\ settings.steamgrid_enabled /\ ~settings.auth_key
        /\ pc' = "exited"
        /\ UNCHANGED cache
     \/ /\ ~settings.steamgrid_enabled /\ ~settings.auth_key
        /\ pc' = "panicked"
        /\ UNCHANGED cache
     \/ /\ settings.auth_key
        /\ cache' = CachedSearch_new
        /\ pc' = "users"
     \/ /\ settings.auth_key
        /\ pc' = "failed"
        /\ UNCHANGED cache
  /\ io' = NoIo
  /\ UNCHANGED <<run, settings, user, shortcut_file, new_user_shortcuts, platform,
                 shortcuts_to_add_result, grid_folder, known_images, search_results,
                 to_search, image_type, images_needed, images, persisted, all_ok, calls, writes>>

\* lines 84-87, get_shortcuts_for_user (34-64): the next user's shortcuts
NextUser ==
  /\ pc = "users" /\ user < NUsers
  /\ user' = user + 1
  /\ \E f \in ShortcutFiles, g \in GridFolders :
       /\ shortcut_file' = f
       /\ new_user_shortcuts' = f.shortcuts
       /\ grid_folder' = g
  /\ pc' = "epic"
  /\ platform' = "none"
  /\ shortcuts_to_add_result' = NoResult
  /\ all_ok' = TRUE
  /\ io' = NoIo
  /\ UserLocals
  /\ writes' = 0
  /\ UNCHANGED <<run, settings, cache, persisted, calls>>

\* one call of update_platform_shortcuts of main()
\* the merge without the test of line 305
Merge_ignores_enabled(p, next, results) ==
  /\ \E r \in results :
       /\ shortcuts_to_add_result' = r
       /\ new_user_shortcuts' = update_platform_shortcuts(p, TRUE, r, new_user_shortcuts)
  /\ platform' = p
  /\ io' = [op |-> "get_shortcuts", platform |-> p]
  /\ pc' = next
  /\ UNCHANGED <<run, settings, user, shortcut_file, grid_folder, known_images,
                 search_results, to_search, image_type, images_needed, images, cache,
                 persisted, all_ok, writes>>

Merge(p, next, results) ==
  /\ \E r \in IF enabled(p) THEN results ELSE {NoResult} :
       /\ shortcuts_to_add_result' = r
       /\ new_user_shortcuts' = update_platform_shortcuts(p, enabled(p), r, new_user_shortcuts)
  /\ platform' = p
  /\ io' = IF enabled(p) THEN [op |-> "get_shortcuts", platform |-> p] ELSE NoIo
  /\ pc' = next
  /\ UNCHANGED <<run, settings, user, shortcut_file, grid_folder, known_images,
                 search_results, to_search, image_type, images_needed, images, cache,
                 persisted, all_ok, writes>>

\* lines 89-92
MergeEpic == pc = "epic" /\ Merge("EGS", "legendary", RunResults) /\ UNCHANGED calls

\* lines 94-97
MergeLegendary == pc = "legendary" /\ Merge("Legendary", "write", RunResults) /\ UNCHANGED calls

\* lines 99-103 left out
WriteShortcuts_skipped ==
  /\ pc = "write"
  /\ pc' = "images"
  /\ io' = NoIo
  /\ UNCHANGED <<run, settings, user, shortcut_file, new_user_shortcuts, platform,
                 shortcuts_to_add_result, grid_folder, known_images, search_results,
                 to_search, image_type, images_needed, images, cache, persisted,
                 all_ok, calls, writes>>

\* lines 99-103
WriteShortcuts ==
  /\ pc = "write"
  /\ shortcut_file' = [exists |-> TRUE, shortcuts |-> new_user_shortcuts]
  /\ pc' = "images"
  /\ io' = [op |-> "write_shortcuts", user |-> user]
  /\ writes' = writes + 1
  /\ UNCHANGED <<run, settings, user, new_user_shortcuts, platform,
                 shortcuts_to_add_result, grid_folder, known_images, search_results,
                 to_search, image_type, images_needed, images, cache, persisted,
                 all_ok, calls>>

\* lines 105-118, get_users_images (195-204)
ReadImages ==
  /\ pc = "images"
  /\ known_images' = grid_folder
  /\ to_search' = shortcuts_to_search_for(new_user_shortcuts, grid_folder)
  /\ search_results' = EmptyMap
  /\ pc' = "search"
  /\ io' = NoIo
  /\ UNCHANGED <<run, settings, user, shortcut_file, new_user_shortcuts, platform,
                 shortcuts_to_add_result, grid_folder, image_type, images_needed,
                 images, cache, persisted, all_ok, calls, writes>>

\* lines 119-125 with every search sent to the service
SearchUncached ==
  /\ pc = "search" /\ to_search # <<>>
  /\ LET s == Head(to_search) IN
       \/ \E found \in SearchAnswers :
            /\ cache' = Insert(cache, s.app_id, found)
            /\ search_results' =
                 IF found.found THEN Insert(search_results, s.app_id, found)
                 ELSE search_results
            /\ io' = [op |-> "search", app_id |-> s.app_id, remote |-> TRUE, ok |-> TRUE]
            /\ to_search' = Tail(to_search)
            /\ UNCHANGED <<pc, all_ok>>
       \/ /\ io' = [op |-> "search", app_id |-> s.app_id, remote |-> TRUE, ok |-> FALSE]
          /\ pc' = "failed"
          /\ all_ok' = FALSE
          /\ UNCHANGED <<cache, search_results, to_search>>
  /\ UNCHANGED <<run, settings, user, shortcut_file, new_user_shortcuts, platform,
                 shortcuts_to_add_result, grid_folder, known_images, image_type,
                 images_needed, images, persisted, calls, writes>>

\* lines 119-125 with the result inserted whether it is Some or None
Search_none_inserted ==
  /\ pc = "search" /\ to_search # <<>>
  /\ LET s == Head(to_search) IN
       \/ /\ CachedSearch_hit(s.app_id)
          /\ search_results' = Insert(search_results, s.app_id, cache[s.app_id])
          /\ io' = [op |-> "search", app_id |-> s.app_id, remote |-> FALSE, ok |-> TRUE]
          /\ to_search' = Tail(to_search)
          /\ UNCHANGED <<pc, cache, all_ok>>
       \/ /\ ~CachedSearch_hit(s.app_id)
          /\ \E found \in SearchAnswers :
               /\ cache' = Insert(cache, s.app_id, found)
               /\ search_results' = Insert(search_results, s.app_id, found)
          /\ io' = [op |-> "search", app_id |-> s.app_id, remote |-> TRUE, ok |-> TRUE]
          /\ to_search' = Tail(to_search)
          /\ UNCHANGED <<pc, all_ok>>
       \/ /\ ~CachedSearch_hit(s.app_id)
          /\ io' = [op |-> "search", app_id |-> s.app_id, remote |-> TRUE, ok |-> FALSE]
          /\ pc' = "failed"
          /\ all_ok' = FALSE
          /\ UNCHANGED <<cache, search_results, to_search>>
  /\ UNCHANGED <<run, settings, user, shortcut_file, new_user_shortcuts, platform,
                 shortcuts_to_add_result, grid_folder, known_images, image_type,
                 images_needed, images, persisted, calls, writes>>

\* lines 119-125: one turn of the search loop
Search ==
  /\ pc = "search" /\ to_search # <<>>
  /\ LET s == Head(to_search) IN
       \/ /\ CachedSearch_hit(s.app_id)
          /\ search_results' =
               IF cache[s.app_id].found
               THEN Insert(search_results, s.app_id, cache[s.app_id])
               ELSE search_results
          /\ io' = [op |-> "search", app_id |-> s.app_id, remote |-> FALSE, ok |-> TRUE]
          /\ to_search' = Tail(to_search)
          /\ UNCHANGED <<pc, cache, all_ok>>
       \/ /\ ~CachedSearch_hit(s.app_id)
          /\ \E found \in SearchAnswers :
               /\ cache' = Insert(cache, s.app_id, found)
               /\ search_results' =
                    IF found.found THEN Insert(search_results, s.app_id, found)
                    ELSE search_results
          /\ io' = [op |-> "search", app_id |-> s.app_id, remote |-> TRUE, ok |-> TRUE]
          /\ to_search' = Tail(to_search)
          /\ UNCHANGED <<pc, all_ok>>
       \/ /\ ~CachedSearch_hit(s.app_id)
          /\ io' = [op |-> "search", app_id |-> s.app_id, remote |-> TRUE, ok |-> FALSE]
          /\ pc' = "failed"
          /\ all_ok' = FALSE
          /\ UNCHANGED <<cache, search_results, to_search>>
  /\ UNCHANGED <<run, settings, user, shortcut_file, new_user_shortcuts, platform,
                 shortcuts_to_add_result, grid_folder, known_images, image_type,
                 images_needed, images, persisted, calls, writes>>

\* line 125-127: the search loop ends, the loop over the types begins
SearchDone ==
  /\ pc = "search" /\ to_search = <<>>
  /\ pc' = "query"
  /\ image_type' = 1
  /\ io' = NoIo
  /\ UNCHANGED <<run, settings, user, shortcut_file, new_user_shortcuts, platform,
                 shortcuts_to_add_result, grid_folder, known_images, search_results,
                 to_search, images_needed, images, cache, persisted, all_ok, calls, writes>>

\* lines 128-149 with the error of the query returned by main()
Query_error_returned ==
  /\ pc = "query" /\ image_type <= Len(types)
  /\ LET t == types[image_type]
         needed == ImagesNeeded(new_user_shortcuts, search_results, known_images, t)
         image_ids == ImageIds(needed, search_results)
     IN \/ \E resp \in Responses(image_ids) :
             /\ images' = resp
             /\ images_needed' = needed
             /\ io' = [op |-> "get_images", type |-> t, ids |-> image_ids, ok |-> TRUE]
             /\ all_ok' = (all_ok /\ Covers(resp, image_ids))
             /\ pc' = "download"
             /\ UNCHANGED image_type
        \/ /\ io' = [op |-> "get_images", type |-> t, ids |-> image_ids, ok |-> FALSE]
           /\ all_ok' = FALSE
           /\ pc' = "failed"
           /\ UNCHANGED <<image_type, images, images_needed>>
  /\ UNCHANGED <<run, settings, user, shortcut_file, new_user_shortcuts, platform,
                 shortcuts_to_add_result, grid_folder, known_images, search_results,
                 to_search, cache, persisted, calls, writes>>

\* lines 128-149, 169: the batched query of one type
Query ==
  /\ pc = "query" /\ image_type <= Len(types)
  /\ LET t == types[image_type]
         needed == ImagesNeeded(new_user_shortcuts, search_results, known_images, t)
         image_ids == ImageIds(needed, search_results)
     IN \/ \E resp \in Responses(image_ids) :
             /\ images' = resp
             /\ images_needed' = needed
             /\ io' = [op |-> "get_images", type |-> t, ids |-> image_ids, ok |-> TRUE]
             /\ all_ok' = (all_ok /\ Covers(resp, image_ids))
             /\ pc' = "download"
             /\ UNCHANGED image_type
        \/ /\ io' = [op |-> "get_images", type |-> t, ids |-> image_ids, ok |-> FALSE]
           /\ all_ok' = FALSE
           /\ image_type' = image_type + 1
           /\ UNCHANGED <<pc, images, images_needed>>
  /\ UNCHANGED <<run, settings, user, shortcut_file, new_user_shortcuts, platform,
                 shortcuts_to_add_result, grid_folder, known_images, search_results,
                 to_search, cache, persisted, calls, writes>>

\* lines 150-167: one turn of the loop over the images of the response
Download ==
  /\ pc = "download" /\ images # <<>>
  /\ LET image == Head(images) IN
       /\ images' = Tail(images)
       /\ \/ /\ images_needed = <<>>
             /\ io' = NoIo
             /\ UNCHANGED <<pc, images_needed, grid_folder, all_ok>>
          \/ /\ images_needed # <<>>
             /\ ~image.ok
             /\ images_needed' = Tail(images_needed)
             /\ io' = NoIo
             /\ UNCHANGED <<pc, grid_folder, all_ok>>
          \/ /\ images_needed # <<>>
             /\ image.ok
             /\ LET shortcut == Head(images_needed)
                    path == file_name(types[image_type], shortcut.app_id)
                IN /\ images_needed' = Tail(images_needed)
                   /\ grid_folder' = grid_folder \cup {path}
                   /\ \E fetched \in BOOLEAN :
                        /\ io' = [op |-> "download", path |-> path,
                                  app_id |-> shortcut.app_id, answers |-> image.id,
                                  ok |-> fetched]
                        /\ pc' = IF fetched THEN pc ELSE "failed"
                        /\ all_ok' = (all_ok /\ fetched)
  /\ UNCHANGED <<run, settings, user, shortcut_file, new_user_shortcuts, platform,
                 shortcuts_to_add_result, known_images, search_results, to_search,
                 image_type, cache, persisted, calls, writes>>

\* lines 167-168, 128: the response is used up, the next type
ImagesDone ==
  /\ pc = "download" /\ images = <<>>
  /\ pc' = "query"
  /\ image_type' = image_type + 1
  /\ images_needed' = <<>>
  /\ io' = NoIo
  /\ UNCHANGED <<run, settings, user, shortcut_file, new_user_shortcuts, platform,
                 shortcuts_to_add_result, grid_folder, known_images, search_results,
                 to_search, images, cache, persisted, all_ok, calls, writes>>

\* lines 171-172 with search.save() called inside the loop over the users
UserDone_saves ==
  /\ pc = "query" /\ image_type > Len(types)
  /\ pc' = "users"
  /\ persisted' = CachedSearch_save
  /\ io' = NoIo
  /\ UNCHANGED <<run, settings, user, shortcut_file, new_user_shortcuts, platform,
                 shortcuts_to_add_result, grid_folder, known_images, search_results,
                 to_search, image_type, images_needed, images, cache, all_ok, calls, writes>>

\* lines 171-172: the types are used up, the next user
UserDone ==
  /\ pc = "query" /\ image_type > Len(types)
  /\ pc' = "users"
  /\ io' = NoIo
  /\ UNCHANGED <<run, settings, user, shortcut_file, new_user_shortcuts, platform,
                 shortcuts_to_add_result, grid_folder, known_images, search_results,
                 to_search, image_type, images_needed, images, cache, persisted,
                 all_ok, calls, writes>>

\* lines 174-176
Save ==
  /\ pc = "users" /\ user = NUsers
  /\ persisted' = CachedSearch_save
  /\ pc' = "done"
  /\ io' = [op |-> "save"]
  /\ UNCHANGED <<run, settings, user, shortcut_file, new_user_shortcuts, platform,
                 shortcuts_to_add_result, grid_folder, known_images, search_results,
                 to_search, image_type, images_needed, images, cache, all_ok, calls, writes>>

Ended == pc \in {"done", "failed", "exited", "panicked"}

\* the program is started again: nothing but the cache file is kept
NewRun ==
  /\ Ended /\ run < MaxRuns
  /\ run' = run + 1
  /\ pc' = "main"
  /\ user' = 0
  /\ shortcut_file' = NoShortcutFile
  /\ new_user_shortcuts' = <<>>
  /\ platform' = "none"
  /\ shortcuts_to_add_result' = NoResult
  /\ grid_folder' = {}
  /\ cache' = EmptyMap
  /\ all_ok' = TRUE
  /\ io' = NoIo
  /\ UserLocals
  /\ writes' = 0
  /\ UNCHANGED <<settings, persisted, calls>>

Init ==
  /\ pc = "main"
  /\ run = 1
  /\ settings \in SettingsSet
  /\ user = 0
  /\ shortcut_file = NoShortcutFile
  /\ new_user_shortcuts = <<>>
  /\ platform = "none"
  /\ shortcuts_to_add_result = NoResult
  /\ grid_folder = {}
  /\ known_images = {}
  /\ search_results = EmptyMap
  /\ to_search = <<>>
  /\ image_type = 0
  /\ images_needed = <<>>
  /\ images = <<>>
  /\ cache = EmptyMap
  /\ persisted = EmptyMap
  /\ io = NoIo
  /\ all_ok = TRUE
  /\ calls = <<>>
  /\ writes = 0

Next ==
  \/ Start
  \/ NextUser
  \/ MergeEpic
  \/ MergeLegendary
  \/ WriteShortcuts
  \/ ReadImages
  \/ Search
  \/ SearchDone
  \/ Query
  \/ Download
  \/ ImagesDone
  \/ UserDone
  \/ Save
  \/ NewRun

Spec == Init /\ [][Next]_vars

\* ---- update_platform_shortcuts on its own ------------------------------
MergeShortcuts == {Manual, ManualSame, Favourite} \cup {into(p, e) : p \in Platforms, e \in Entries}

InitMerge ==
  /\ pc = "merge"
  /\ run = 1
  /\ settings \in {s \in SettingsSet : s.steamgrid_enabled /\ s.auth_key}
  /\ user = 1
  /\ shortcut_file = NoShortcutFile
  /\ new_user_shortcuts \in SeqsUpTo(MergeShortcuts, MaxColl)
  /\ platform = "none"
  /\ shortcuts_to_add_result = NoResult
  /\ grid_folder = {}
  /\ known_images = {}
  /\ search_results = EmptyMap
  /\ to_search = <<>>
  /\ image_type = 0
  /\ images_needed = <<>>
  /\ images = <<>>
  /\ cache = EmptyMap
  /\ persisted = EmptyMap
  /\ io = NoIo
  /\ all_ok = TRUE
  /\ calls = <<>>
  /\ writes = 0

\* lines 299-321, called for any platform
MergeCall ==
  /\ pc = "merge" /\ Len(calls) < MaxCalls
  /\ \E p \in Platforms :
       /\ Merge(p, "merge", Results)
       /\ calls' = Append(calls, <<p, shortcuts_to_add_result'>>)

NextMerge == MergeCall

SpecMerge == InitMerge /\ [][NextMerge]_vars

\* a is b with some of its elements left out
RECURSIVE IsSubsequence(_, _)
IsSubsequence(a, b) ==
  IF a = <<>> THEN TRUE
  ELSE IF b = <<>> THEN FALSE
  ELSE IF Head(a) = Head(b) THEN IsSubsequence(Tail(a), Tail(b))
  ELSE IsSubsequence(a, Tail(b))

Tagged(shortcuts, p) == LET test(f) == Contains(f.tags, p) IN SelectSeq(shortcuts, test)
NotTagged(shortcuts, p) == LET test(f) == ~Contains(f.tags, p) IN SelectSeq(shortcuts, test)

\* ---- claims ------------------------------------------------------------
IsCall == Len(calls') = Len(calls) + 1

\* C1: a call of update_platform_shortcuts that follows a call for the same
\* enabled platform, get_shortcuts having returned the same candidate list both
\* times, leaves the collection as the first call left it: the same shortcuts
\* in the same order.
C1_MergeIdempotent ==
  [][(/\ IsCall
      /\ Len(calls) >= 1
      /\ calls'[Len(calls')] = calls[Len(calls)]
      /\ enabled(platform)
      /\ shortcuts_to_add_result.ok)
     => new_user_shortcuts' = new_user_shortcuts]_vars

\* the second of two equal calls has been made, with a candidate to add and
\* shortcuts of others in the collection
C1_Witness ==
  /\ Len(calls) = 2
  /\ calls[1] = calls[2]
  /\ enabled(platform)
  /\ shortcuts_to_add_result.ok
  /\ Len(shortcuts_to_add_result.list) >= 1
  /\ Len(NotTagged(new_user_shortcuts, platform)) >= 1

\* C2: whatever a call of update_platform_shortcuts for a platform does, the
\* shortcuts that were in the collection and do not carry that platform's tag
\* are in the collection after it, as they were and in the same order.
C2_TagIsolation ==
  [][IsCall =>
       IsSubsequence(NotTagged(new_user_shortcuts, platform'), new_user_shortcuts')]_vars

\* a successful call has replaced the platform's shortcuts and the collection
\* holds an untagged shortcut and one of the other platform
C2_Witness ==
  /\ Len(calls) >= 1
  /\ enabled(platform)
  /\ shortcuts_to_add_result.ok
  /\ Len(Tagged(new_user_shortcuts, platform)) >= 1
  /\ Manual \in Range(new_user_shortcuts)
  /\ \E q \in Platforms \ {platform} : Len(Tagged(new_user_shortcuts, q)) >= 1

\* C3: after a call for an enabled platform whose get_shortcuts succeeded, the
\* shortcuts carrying the platform's tag are the conversions of the candidates,
\* one per candidate and in their order; none when the list is empty.
C3_MergePostcondition ==
  (Len(calls) >= 1 /\ enabled(platform) /\ shortcuts_to_add_result.ok)
    => Tagged(new_user_shortcuts, platform) =
         [i \in 1 .. Len(shortcuts_to_add_result.list) |->
            into(platform, shortcuts_to_add_result.list[i])]

\* a platform that returned a game returns nothing in the next call
C3_Witness ==
  /\ Len(calls) = 2
  /\ calls[1][1] = calls[2][1]
  /\ enabled(platform)
  /\ calls[1][2].ok /\ Len(calls[1][2].list) >= 1
  /\ calls[2][2] = Ok(<<>>)
  /\ Len(new_user_shortcuts) >= 1

\* C4: when get_shortcuts of an enabled platform returns an error, the call
\* leaves the collection as it was and main() goes on with its next step: the
\* merge of Legendary after Epic, the write of the collection after Legendary.
C4_FailurePreserves ==
  [][(pc \in {"epic", "legendary"} /\ shortcuts_to_add_result' = Err)
     => /\ new_user_shortcuts' = new_user_shortcuts
        /\ pc' = (IF pc = "epic" THEN "legendary" ELSE "write")]_vars

\* Epic has failed while the collection holds an Epic shortcut
C4_Witness ==
  /\ pc = "legendary"
  /\ platform = "EGS"
  /\ shortcuts_to_add_result = Err
  /\ Len(Tagged(new_user_shortcuts, "EGS")) >= 1

\* C5: an image that is downloaded is written under the file name of a
\* shortcut whose remote identifier the image answers.
C5_IdentifierCorrect ==
  io.op = "download" => search_results[io.app_id].id = io.answers

\* C6: no remote search is issued for an app_id that has an entry in the cache
\* file, in any run and for any user, and an entry of the cache file stays.
C6_CacheHitSuppression ==
  [][/\ (io'.op = "search" /\ io'.remote) => io'.app_id \notin DOMAIN persisted
     /\ DOMAIN persisted \subseteq DOMAIN persisted']_vars

\* a later run answers a search from an entry an earlier run saved
C6_Witness ==
  /\ run >= 2
  /\ io.op = "search"
  /\ ~io.remote
  /\ io.app_id \in DOMAIN persisted

\* C7: search is called only for a shortcut missing one of its three images
\* in the images read at the start of the asset sync.
C7_NoSearchIfComplete ==
  /\ io.op = "search" => ~(AllImages(io.app_id) \subseteq known_images)
  /\ \A i \in 1 .. Len(to_search) : ~(AllImages(to_search[i].app_id) \subseteq known_images)

\* the searches of a user are over, and were made for one shortcut while
\* another shortcut has its three images
C7_Witness ==
  /\ pc = "query"
  /\ io = NoIo
  /\ search_results # EmptyMap
  /\ \E i \in 1 .. Len(new_user_shortcuts) :
       /\ AllImages(new_user_shortcuts[i].app_id) \subseteq known_images
       /\ new_user_shortcuts[i].app_id \notin DOMAIN cache

\* C8: when the processing of a user ends with no search, batched query or
\* download having failed and every response carrying a usable image for every
\* requested identifier, every shortcut with a matched search result has its
\* three images in the grid folder.
C8_AssetSyncComplete ==
  (pc = "users" /\ user >= 1 /\ all_ok)
    => \A i \in 1 .. Len(new_user_shortcuts) :
         new_user_shortcuts[i].app_id \in DOMAIN search_results
           => AllImages(new_user_shortcuts[i].app_id) \subseteq grid_folder

\* C9: a failed batched query adds no file and is followed by the query of the
\* next type (the next user after the last type); files are added only by the
\* download loop of a successful query, and are of the type of that query.
C9_TypeIsolation ==
  [][/\ (pc = "query" /\ io'.op = "get_images" /\ ~io'.ok)
          => /\ grid_folder' = grid_folder
             /\ pc' = "query"
             /\ image_type' = image_type + 1
     /\ (pc \in {"query", "download"} /\ grid_folder' # grid_folder)
          => /\ pc = "download"
             /\ image_type' = image_type
             /\ \E a \in AppIds :
                  grid_folder' = grid_folder \cup {file_name(types[image_type], a)}]_vars

\* the query of a type has failed for a user who needs images of that type
C9_Witness ==
  /\ pc = "query"
  /\ io.op = "get_images"
  /\ ~io.ok
  /\ Len(io.ids) >= 1
  /\ user < NUsers

\* C10: a failed download leaves main() in the loop over the images.
C10_DownloadFailurePerItem ==
  (io.op = "download" /\ ~io.ok) => pc = "download"
\* C11: a failed remote search leaves main() in the search loop, with no cache
\* entry and no search result for that shortcut.
C11_SearchFailurePerLookup ==
  (io.op = "search" /\ ~io.ok)
    => /\ pc = "search"
       /\ io.app_id \notin DOMAIN cache
       /\ io.app_id \notin DOMAIN search_results

\* C12: the file of a download that failed is not in the grid folder.
C12_FailedDownloadLeavesNoFile ==
  (io.op = "download" /\ ~io.ok) => io.path \notin grid_folder
InAssetSync == pc \in {"search", "query", "download"}

\* the shortcuts of the collection with a matched search result whose file of
\* type t was not among the images read at the start of the asset sync
MissingMatched(t) ==
  LET test(s) == /\ s.app_id \in DOMAIN search_results
                 /\ search_results[s.app_id].found
                 /\ file_name(t, s.app_id) \notin known_images
  IN SelectSeq(new_user_shortcuts, test)

\* C13: the identifiers of the batched query of a type are those of the
\* shortcuts with a matched search result whose file of that type was absent
\* at the start of the asset sync, and a file written by the asset sync is the
\* file of such a shortcut and type: no file that was there is requested or
\* written.
C13_PerTypePrecision ==
  /\ io.op = "get_images"
       => io.ids = [i \in 1 .. Len(MissingMatched(io.type)) |->
                      search_results[MissingMatched(io.type)[i].app_id].id]
  /\ io.op = "download"
       => /\ io.path \notin known_images
          /\ \E i \in 1 .. Len(MissingMatched(types[image_type])) :
               /\ MissingMatched(types[image_type])[i].app_id = io.app_id
               /\ io.path = file_name(types[image_type], io.app_id)
  /\ InAssetSync
       => /\ known_images \subseteq grid_folder
          /\ \A f \in grid_folder \ known_images :
               \E t \in Range(types), i \in 1 .. Len(new_user_shortcuts) :
                 /\ f = file_name(t, new_user_shortcuts[i].app_id)
                 /\ new_user_shortcuts[i].app_id \in DOMAIN search_results

\* an image is downloaded for a shortcut that had its hero image only
C13_Witness ==
  /\ io.op = "download"
  /\ io.ok
  /\ file_name("Hero", io.app_id) \in known_images
  /\ image_type = Len(types)
  /\ file_name("Hero", io.app_id) # io.path

\* C14: a shortcut whose search result is "not found", searched in this run or
\* taken from the cache, has no entry in search_results, is not among the
\* shortcuts of a batched query and gets no file.
C14_NotFoundTerminal ==
  \A a \in DOMAIN cache :
    ~cache[a].found
      => /\ a \notin DOMAIN search_results
         /\ \A i \in 1 .. Len(images_needed) : images_needed[i].app_id # a
         /\ io.op = "download" => io.app_id # a
         /\ InAssetSync => AllImages(a) \cap grid_folder \subseteq known_images

\* the asset sync of a user is over in a later run, a shortcut of the user
\* missing images having been answered "not found" from the cache file
C14_Witness ==
  /\ pc = "users"
  /\ user >= 1
  /\ run >= 2
  /\ \E i \in 1 .. Len(new_user_shortcuts) :
       LET a == new_user_shortcuts[i].app_id
       IN /\ a \in DOMAIN persisted
          /\ ~persisted[a].found
          /\ ~(AllImages(a) \subseteq known_images)
  /\ search_results # EmptyMap
\* C15: the cache file changes only in the step that calls save(), which is
\* taken when the loop over the users is over and writes the in-memory map;
\* nothing of the run follows it, so it is called at most once and every other
\* step of the run leaves the cache file as it was at the start of the run.
C15_FlushDiscipline ==
  [][/\ (persisted' # persisted \/ io'.op = "save")
          => /\ pc = "users" /\ user = NUsers
             /\ io'.op = "save"
             /\ persisted' = cache
             /\ pc' = "done"
     /\ pc = "done" => (pc' = "main" /\ run' = run + 1)]_vars

\* save() has written entries found in this run
C15_Witness ==
  /\ pc = "done"
  /\ io.op = "save"
  /\ run = 1
  /\ persisted # EmptyMap
  /\ user = NUsers
AssetSyncIo == io.op \in {"search", "get_images", "download"}

\* C16 as stated: the write of the collection is the last step of the user's
\* processing, so no search, batched query or download of the user follows it.
C16_WriteIsLastStep ==
  AssetSyncIo => writes = 0

\* C16 as amended: the collection of a user is written at most once; the write
\* comes after the two merges and before the searches, queries and downloads of
\* the user, and writes the merged collection.
C16_WriteOnceAfterMerges ==
  /\ writes <= 1
  /\ pc \in {"epic", "legendary", "write"} => writes = 0
  /\ io.op = "get_shortcuts" => writes = 0
  /\ (pc = "images" \/ InAssetSync \/ AssetSyncIo)
       => /\ writes = 1
          /\ shortcut_file = [exists |-> TRUE, shortcuts |-> new_user_shortcuts]
  /\ (pc = "users" /\ user >= 1) => writes = 1

\* the processing of the last user is over: a platform was merged, the
\* collection was written and an image was downloaded after that
C16_Witness ==
  /\ pc = "users"
  /\ user = NUsers
  /\ writes = 1
  /\ Len(new_user_shortcuts) >= 1
  /\ shortcut_file.shortcuts = new_user_shortcuts
  /\ grid_folder # known_images
Unique(shortcuts) ==
  \A i, j \in 1..Len(shortcuts) : shortcuts[i].app_id = shortcuts[j].app_id => i = j

\* C17: a call of update_platform_shortcuts on a collection with at most one
\* shortcut per app_id leaves a collection with at most one shortcut per app_id,
\* whatever candidate list the platform returns.
C17_AppIdUnique ==
  [][(IsCall /\ Unique(new_user_shortcuts)) => Unique(new_user_shortcuts')]_vars
\* C18: a call of update_platform_shortcuts for a platform that is not enabled
\* does not call get_shortcuts and leaves the collection as it was, the
\* shortcuts with the platform's tag included.
C18_DisabledNoOp ==
  [][(IsCall /\ ~enabled(platform'))
       => /\ new_user_shortcuts' = new_user_shortcuts
          /\ shortcuts_to_add_result' = NoResult
          /\ io' = NoIo]_vars

\* a call for a disabled platform was made on a collection that holds a
\* shortcut with the platform's tag
C18_Witness ==
  /\ Len(calls) >= 1
  /\ ~enabled(platform)
  /\ shortcuts_to_add_result = NoResult
  /\ Len(Tagged(new_user_shortcuts, platform)) >= 1
MissingKey == settings.steamgrid_enabled /\ ~settings.auth_key

\* C19: with the asset service enabled and no auth key, a run ends with Ok
\* before any user is processed: no platform is merged, no shortcut file is
\* written, no remote call is made and the cache is not saved.
C19_MissingKeyExit ==
  MissingKey
    => /\ pc \in {"main", "exited"}
       /\ user = 0
       /\ platform = "none"
       /\ shortcuts_to_add_result = NoResult
       /\ writes = 0
       /\ shortcut_file = NoShortcutFile
       /\ io = NoIo
       /\ persisted = EmptyMap

\* the second run has ended at line 73 as the first did
C19_Witness ==
  /\ MissingKey
  /\ pc = "exited"
  /\ run = MaxRuns
====
